---- MODULE Spec2Model ----
(***************************************************************************)
(* Model of doxy_tags_functions_variables.py: a script that walks a        *)
(* directory, and for every C/C++ source file inserts a templated comment  *)
(* block above each function, variable and struct declaration that its     *)
(* regular expressions recognise and that is not already preceded by a     *)
(* comment.                                                                *)
(*                                                                         *)
(* File contents are strings.  Positions are 1-based: the Python offset k  *)
(* is position k + 1, and the slice content[:k] is SubSeq(c, 1, pos - 1).  *)
(* The regular expressions are evaluated on characters with Python's       *)
(* semantics (leftmost match, greedy quantifiers, backtracking).           *)
(***************************************************************************)
EXTENDS Integers, Sequences, FiniteSets, TLC

(***************************************************************************)
(* Bounds of the model.                                                    *)
(***************************************************************************)
\* Number of fragments (see Fragments) an input source file is made of.
MaxFragments == 2
\* Number of times the script is run over the directory (SpecRerun only).
MaxRuns == 2
\* Number of pieces (see Pieces) a text given to the classifier is made of.
MaxPieces == 3

(***************************************************************************)
(* Characters.                                                             *)
(***************************************************************************)
Char(c, i) == SubSeq(c, i, i)

\* \s of the re module and the characters str.strip() removes, restricted to
\* the characters that occur in the model's files.
Whitespace == {" ", "\n", "\t"}

\* \d
Digit == {"0", "1", "2", "3", "4", "5", "6", "7", "8", "9"}

\* \w
WordChar ==
    Digit \cup {"_"} \cup
    {"a", "b", "c", "d", "e", "f", "g", "h", "i", "j", "k", "l", "m",
     "n", "o", "p", "q", "r", "s", "t", "u", "v", "w", "x", "y", "z",
     "A", "B", "C", "D", "E", "F", "G", "H", "I", "J", "K", "L", "M",
     "N", "O", "P", "Q", "R", "S", "T", "U", "V", "W", "X", "Y", "Z"}

\* The class [\w\s\*&:<>,] of the function and variable patterns.
TypeChar == WordChar \cup Whitespace \cup {"*", "&", ":", "<", ">", ","}

IsWs(c, i) == i >= 1 /\ i <= Len(c) /\ Char(c, i) \in Whitespace
IsWord(c, i) == i >= 1 /\ i <= Len(c) /\ Char(c, i) \in WordChar
IsTypeChar(c, i) == i >= 1 /\ i <= Len(c) /\ Char(c, i) \in TypeChar

\* sub in s
Contains(s, sub) ==
    \E i \in 1..(Len(s) - Len(sub) + 1) : SubSeq(s, i, i + Len(sub) - 1) = sub

\* s.startswith(sub)
StartsWith(s, sub) == Len(s) >= Len(sub) /\ SubSeq(s, 1, Len(sub)) = sub

\* s.endswith(sub)
EndsWith(s, sub) ==
    Len(s) >= Len(sub) /\ SubSeq(s, Len(s) - Len(sub) + 1, Len(s)) = sub

\* The text of c at position i is sub.
At(c, i, sub) == i + Len(sub) - 1 <= Len(c) /\ SubSeq(c, i, i + Len(sub) - 1) = sub

RECURSIVE SkipWs(_, _)
\* Greedy \s* from position i: the first position at or after i that holds
\* no whitespace (Len(c) + 1 at the end of the text).
SkipWs(c, i) == IF IsWs(c, i) THEN SkipWs(c, i + 1) ELSE i

RECURSIVE SkipWord(_, _)
\* Greedy \w* from position i.
SkipWord(c, i) == IF IsWord(c, i) THEN SkipWord(c, i + 1) ELSE i

RECURSIVE SkipType(_, _)
\* Greedy [\w\s\*&:<>,]* from position i.
SkipType(c, i) == IF IsTypeChar(c, i) THEN SkipType(c, i + 1) ELSE i

RECURSIVE Find(_, _, _)
\* The first position at or after i that holds the character ch
\* (Len(c) + 1 when there is none): the end of a greedy [^ch]*.
Find(c, i, ch) ==
    IF i > Len(c) \/ Char(c, i) = ch THEN i ELSE Find(c, i + 1, ch)

RECURSIVE BackWs(_, _)
\* The last position at or before i that holds no whitespace (0 if none).
BackWs(c, i) == IF IsWs(c, i) THEN BackWs(c, i - 1) ELSE i

RECURSIVE BackTo(_, _, _)
\* The last position at or before i that holds ch (0 if none).
BackTo(c, i, ch) ==
    IF i < 1 \/ Char(c, i) = ch THEN i ELSE BackTo(c, i - 1, ch)

\* s.strip()
Strip(s) ==
    LET lo == SkipWs(s, 1)
        hi == BackWs(s, Len(s))
    IN  IF lo > hi THEN "" ELSE SubSeq(s, lo, hi)

(***************************************************************************)
(* The templates.                                                          *)
(***************************************************************************)
FUNCTION_TEMPLATE(brief_description, detailed_description, params, return_description) ==
    "\n// StateDiagramRef: Instruction TODO\n/**\n * @brief " \o brief_description
    \o "\n *\n * " \o detailed_description
    \o "\n *\n * @param[in] " \o params
    \o "\n * @return " \o return_description
    \o "\n */\n"

VARIABLE_TEMPLATE(brief_description, detailed_description) ==
    "\n// StateDiagramNaming: Variable Definition TODO\n/**\n * @brief "
    \o brief_description
    \o "\n *\n * " \o detailed_description
    \o "\n */\n"

STRUCT_TEMPLATE(struct_type, struct_name) ==
    "\n// StateDiagramRef: Instruction TODO\n/**\n * @brief Brief description of the "
    \o struct_type \o " " \o struct_name
    \o ".\n *\n * Detailed description of the " \o struct_type \o " " \o struct_name
    \o ".\n */\n"

CONSTANT_TEMPLATE(constant_name) ==
    "\n// StateDiagramNaming: Constant Definition TODO\n/**\n * @brief Constant representing "
    \o constant_name
    \o ".\n *\n * Detailed description of the constant " \o constant_name
    \o ".\n */\n"

(***************************************************************************)
(* detect_variable_type                                                    *)
(***************************************************************************)
\* VariableType.name.lower() of the four members of the enumeration.
VariableType == {"constant", "pointer_or_reference", "array", "variable"}

RECURSIVE SkipDigit(_, _)
\* Greedy \d* from position i.
SkipDigit(c, i) ==
    IF i <= Len(c) /\ Char(c, i) \in Digit THEN SkipDigit(c, i + 1) ELSE i

\* \[\s*\d*\s*\] matches at position i.  After the greedy \s* no digit is
\* left for \d* to give back, and whitespace given back by the first \s* is
\* taken by the second, so the greedy path decides.
BracketAt(c, i) ==
    /\ At(c, i, "[")
    /\ At(c, SkipWs(c, SkipDigit(c, SkipWs(c, i + 1))), "]")

\* re.match(r'.*\[\s*\d*\s*\]', declaration): the match is anchored at the
\* start of the text and . matches no line break, so the bracket opens on
\* the first line of the text.
ArrayPattern(declaration) ==
    \E i \in 1..(Find(declaration, 1, "\n") - 1) : BracketAt(declaration, i)

detect_variable_type(declaration) ==
    IF Contains(declaration, "const") THEN "constant"
    ELSE IF Contains(declaration, "*") \/ Contains(declaration, "&")
         THEN "pointer_or_reference"
    ELSE IF ArrayPattern(declaration) THEN "array"
    ELSE "variable"

(***************************************************************************)
(* generate_function_comment, generate_variable_comment,                   *)
(* generate_struct_comment                                                 *)
(***************************************************************************)
RECURSIVE SplitComma(_)
\* params.split(','): the segments between commas, empty ones included.
SplitComma(s) ==
    LET k == Find(s, 1, ",")
    IN  IF k > Len(s) THEN <<s>>
        ELSE <<SubSeq(s, 1, k - 1)>> \o SplitComma(SubSeq(s, k + 1, Len(s)))

\* param.split()[-1]: the last whitespace-delimited token of a segment that
\* holds one.
LastToken(param) ==
    LET hi == BackWs(param, Len(param))
        RECURSIVE Back(_)
        Back(i) == IF i >= 1 /\ ~IsWs(param, i) THEN Back(i - 1) ELSE i
    IN  SubSeq(param, Back(hi) + 1, hi)

\* The segments the comprehension keeps: `if param` drops the empty string
\* only, a segment of whitespace is kept.
KeptParams(params) == SelectSeq(SplitComma(params), LAMBDA param : param # "")

\* param.split() is the empty list for a segment of whitespace only, and
\* [-1] of it raises IndexError.
ParamsRaise(params) ==
    \E k \in 1..Len(KeptParams(params)) : Strip(KeptParams(params)[k]) = ""

RECURSIVE Join(_, _)
\* sep.join(seq)
Join(sep, seq) ==
    IF seq = <<>> THEN ""
    ELSE IF Len(seq) = 1 THEN seq[1]
    ELSE seq[1] \o sep \o Join(sep, Tail(seq))

\* The generated text; called only where ParamsRaise(params) is false.
generate_function_comment(return_type, function_name, params) ==
    LET kept == KeptParams(params)
        formatted_params == Join(", ", [k \in 1..Len(kept) |-> LastToken(kept[k])])
        brief_description ==
            "Brief description of the function " \o function_name \o "."
        detailed_description ==
            "Detailed description of the function " \o function_name \o "."
        return_description ==
            IF Strip(return_type) # "void"
            THEN "Return value of " \o function_name \o "."
            ELSE "No return value."
    IN  FUNCTION_TEMPLATE(brief_description, detailed_description,
                          formatted_params, return_description)

generate_variable_comment(var_type, variable_name) ==
    IF var_type = "constant" THEN CONSTANT_TEMPLATE(variable_name)
    ELSE VARIABLE_TEMPLATE(
            "Brief description of the " \o var_type \o " " \o variable_name \o ".",
            "Detailed description of the " \o var_type \o " " \o variable_name \o ".")

generate_struct_comment(struct_name) == STRUCT_TEMPLATE("struct", struct_name)

(***************************************************************************)
(* is_preceded_by_comment                                                  *)
(***************************************************************************)
\* The loop `for line in reversed(lines_before)` over the lines of the text
\* c[lo..hi], last line first; hi is the last position of the line looked at.
\* A line runs from the position after the preceding line break (or lo) to
\* the position before the next one.
RECURSIVE ScanLinesBack(_, _, _)
ScanLinesBack(c, lo, hi) ==
    LET nl == BackTo(c, hi, "\n")
        b == IF nl < lo THEN lo ELSE nl + 1
        line == SubSeq(c, b, hi)
    IN  IF Contains(line, "/*") THEN TRUE
        ELSE IF Contains(line, "*/") THEN FALSE
        ELSE IF b = lo THEN FALSE
        ELSE ScanLinesBack(c, lo, b - 2)

\* start is the position of the first character of the match.
is_preceded_by_comment(content, start) ==
    LET \* content[:start_index].strip() is content[lo..hi]
        lo == SkipWs(content, 1)
        hi == BackWs(content, start - 1)
        nl == BackTo(content, hi, "\n")
        b == IF nl < lo THEN lo ELSE nl + 1
        previous_line == Strip(SubSeq(content, b, hi))
    IN  IF hi < 1 THEN FALSE
        ELSE IF StartsWith(previous_line, "//") THEN TRUE
        ELSE IF Contains(previous_line, "*/") THEN ScanLinesBack(content, lo, hi)
        ELSE FALSE

(***************************************************************************)
(* The three patterns.  A match is a record: start is the position of its  *)
(* first character, end the position after its last one.                   *)
(***************************************************************************)
NoMatch == [start |-> 0]

\* ^ under re.MULTILINE
IsLineStart(c, i) == i = 1 \/ (i >= 2 /\ i <= Len(c) + 1 /\ Char(c, i - 1) = "\n")

\* \s*\(([^)]*)\) of function_pattern from the position w after the name:
\* the position of ( and of the first ) after it.
Open(c, w) == SkipWs(c, w)
Close(c, w) == Find(c, Open(c, w) + 1, ")")
FunctionRest(c, w) == At(c, Open(c, w), "(") /\ Close(c, w) <= Len(c)

\* variable_pattern with an array suffix (\[\d*\])? let in after the name.
VariableRestArraySuffix(c, w) ==
    LET s == IF BracketAt(c, w) THEN Find(c, w, "]") + 1 ELSE w
        eq == SkipWs(c, s)
        semi == Find(c, eq, ";")
    IN  \/ At(c, eq, "=") /\ semi <= Len(c) /\ semi > eq + 1
        \/ At(c, eq, ";")

\* \s*(=\s*[^;]+)?\s*; of variable_pattern from the position w after the
\* name: with the initializer, [^;]+ runs to the first ; and needs one
\* character at least; without it the ; follows the whitespace.
VariableRest(c, w) ==
    LET eq == SkipWs(c, w)
        semi == Find(c, eq, ";")
    IN  \/ At(c, eq, "=") /\ semi <= Len(c) /\ semi > eq + 1
        \/ At(c, eq, ";")

\* What the pattern asks of the position w after group 2.
PatternRest(pattern, c, w) ==
    IF pattern = "function" THEN FunctionRest(c, w) ELSE VariableRest(c, w)

\* \s+(\w+) and the rest of the pattern match from position e, the position
\* after group 1.  \s+ and \w+ take the whole run: what they would give back
\* is no start of what follows.
NameFollows(pattern, c, e) ==
    /\ IsWs(c, e)
    /\ IsWord(c, SkipWs(c, e))
    /\ PatternRest(pattern, c, SkipWord(c, SkipWs(c, e)))

\* The greatest element of a set of positions, 0 for the empty set.
Last(ends) == IF ends = {} THEN 0 ELSE CHOOSE m \in ends : \A o \in ends : o <= m

\* (\w[\w\s\*&:<>,]*) with its first position p: the position after group 1,
\* or 0 when the pattern does not match from p.  The class is greedy: of the
\* positions it can stop at, the match takes the last one from which the
\* rest of the pattern matches.
TypeEnd(pattern, c, p) ==
    IF ~IsWord(c, p) THEN 0
    ELSE Last({e \in (p + 1)..SkipType(c, p + 1) : NameFollows(pattern, c, e)})

\* \s*(const)?\s*{? of function_pattern from position a, the position after
\* the closing parenthesis: every part is optional and greedy.  The result
\* is the end of the match.
FunctionTail(c, a) ==
    LET k == IF At(c, SkipWs(c, a), "const") THEN SkipWs(c, a) + 5 ELSE SkipWs(c, a)
    IN  IF At(c, SkipWs(c, k), "{") THEN SkipWs(c, k) + 1 ELSE SkipWs(c, k)

\* The match of function_pattern that starts at i, with group 1 at
\* c[p..e-1] and group 2 at c[n..w-1].
FunctionGroups(c, i, p, e, n, w) ==
    [start |-> i,
     end |-> FunctionTail(c, Close(c, w) + 1),
     return_type |-> SubSeq(c, p, e - 1),
     function_name |-> SubSeq(c, n, w - 1),
     params |-> SubSeq(c, Open(c, w) + 1, Close(c, w) - 1)]

\* The match of variable_pattern that starts at i, with group 1 at
\* c[p..e-1] and group 2 at c[n..w-1].
VariableGroups(c, i, p, e, n, w) ==
    [start |-> i,
     end |-> Find(c, w, ";") + 1,
     declaration_type |-> SubSeq(c, p, e - 1),
     variable_name |-> SubSeq(c, n, w - 1)]

\* The match at the line start i, given the first position p of group 1 and
\* the position e after it (0: no match).
GroupsAt(pattern, c, i, p, e) ==
    IF e = 0 THEN NoMatch
    ELSE IF pattern = "function"
    THEN FunctionGroups(c, i, p, e, SkipWs(c, e), SkipWord(c, SkipWs(c, e)))
    ELSE VariableGroups(c, i, p, e, SkipWs(c, e), SkipWord(c, SkipWs(c, e)))

\* ^\s* and then group 1 from the first position p after the whitespace.
TypedMatchAt(pattern, c, i, p) ==
    IF ~IsLineStart(c, i) THEN NoMatch
    ELSE GroupsAt(pattern, c, i, p, TypeEnd(pattern, c, p))

\* function_pattern, tried at the line start i:
\* ^\s*(\w[\w\s\*&:<>,]*)\s+(\w+)\s*\(([^)]*)\)\s*(const)?\s*{?
FunctionMatchAt(c, i) == TypedMatchAt("function", c, i, SkipWs(c, i))

\* variable_pattern, tried at the line start i:
\* ^\s*(\w[\w\s\*&:<>,]*)\s+(\w+)\s*(=\s*[^;]+)?\s*;
VariableMatchAt(c, i) == TypedMatchAt("variable", c, i, SkipWs(c, i))

\* struct_pattern, tried at the line start i: ^\s*struct\s+(\w+)
StructMatchAt(c, i) ==
    LET p == SkipWs(c, i)
        n == SkipWs(c, p + 6)
    IN  IF /\ IsLineStart(c, i)
           /\ At(c, p, "struct")
           /\ n > p + 6
           /\ IsWord(c, n)
        THEN [start |-> i,
              end |-> SkipWord(c, n),
              struct_name |-> SubSeq(c, n, SkipWord(c, n) - 1)]
        ELSE NoMatch

\* pattern.match(content, i) for the three patterns.
MatchAt(pattern, c, i) ==
    IF pattern = "function" THEN FunctionMatchAt(c, i)
    ELSE IF pattern = "variable" THEN VariableMatchAt(c, i)
    ELSE StructMatchAt(c, i)

\* The first line start at or after position i (Len(c) + 2 when none).
NextLineStart(c, i) ==
    IF IsLineStart(c, i) THEN i
    ELSE IF Find(c, i, "\n") > Len(c) THEN Len(c) + 2 ELSE Find(c, i, "\n") + 1

RECURSIVE FindIter(_, _, _)
\* finditer after the attempt at the line start s gave m: without a match
\* the search goes on after s, with one it goes on at the end of the match.
FindIterAfter(pattern, c, s, m) ==
    IF m = NoMatch THEN FindIter(pattern, c, s + 1)
    ELSE <<m>> \o FindIter(pattern, c, m.end)

\* list(pattern.finditer(content)) from position i on: the leftmost match,
\* then the matches of the text after its end.  Every pattern starts with ^,
\* so only line starts are tried.
FindIter(pattern, c, i) ==
    IF NextLineStart(c, i) > Len(c) THEN <<>>
    ELSE FindIterAfter(pattern, c, NextLineStart(c, i),
                       MatchAt(pattern, c, NextLineStart(c, i)))

function_matches(content) == FindIter("function", content, 1)
variable_matches(content) == FindIter("variable", content, 1)
struct_matches(content) == FindIter("struct", content, 1)

(***************************************************************************)
(* The three passes.  A pass returns the new content, or the exception     *)
(* that ended it.                                                          *)
(***************************************************************************)
\* content[:match.start()] + doxygen_comment + content[match.start():]
Insert(content, start, doxygen_comment) ==
    SubSeq(content, 1, start - 1) \o doxygen_comment
        \o SubSeq(content, start, Len(content))

RECURSIVE FunctionLoop(_, _)
\* for match in reversed(function_matches): the last of the matches, then
\* the loop over the ones before it.
FunctionLoop(content, matches) ==
    IF matches = <<>> THEN [content |-> content, error |-> "none"]
    ELSE LET match == matches[Len(matches)]
             before == SubSeq(matches, 1, Len(matches) - 1)
         IN  IF is_preceded_by_comment(content, match.start)
             THEN FunctionLoop(content, before)
             ELSE IF ParamsRaise(match.params)
             THEN [content |-> content, error |-> "IndexError"]
             ELSE FunctionLoop(
                    Insert(content, match.start,
                           generate_function_comment(match.return_type,
                                                     match.function_name,
                                                     match.params)),
                    before)

add_doxygen_to_functions(content) ==
    FunctionLoop(content, function_matches(content))

RECURSIVE VariableLoopAscending(_, _)
\* VariableLoop without reversed(): the matches are taken first to last, each
\* at the offset it had before the earlier insertions moved it.
VariableLoopAscending(content, matches) ==
    IF matches = <<>> THEN [content |-> content, error |-> "none"]
    ELSE LET match == Head(matches)
             var_type == detect_variable_type(match.declaration_type)
         IN  IF is_preceded_by_comment(content, match.start)
             THEN VariableLoopAscending(content, Tail(matches))
             ELSE VariableLoopAscending(
                    Insert(content, match.start,
                           generate_variable_comment(var_type, match.variable_name)),
                    Tail(matches))

RECURSIVE VariableLoop(_, _)
\* for match in reversed(variable_matches): the last of the matches, then
\* the loop over the ones before it.
VariableLoop(content, matches) ==
    IF matches = <<>> THEN [content |-> content, error |-> "none"]
    ELSE LET match == matches[Len(matches)]
             before == SubSeq(matches, 1, Len(matches) - 1)
             var_type == detect_variable_type(match.declaration_type)
         IN  IF is_preceded_by_comment(content, match.start)
             THEN VariableLoop(content, before)
             ELSE VariableLoop(
                    Insert(content, match.start,
                           generate_variable_comment(var_type, match.variable_name)),
                    before)

add_doxygen_to_variables(content) ==
    VariableLoop(content, variable_matches(content))

RECURSIVE StructLoop(_, _)
\* for match in reversed(struct_matches): the last of the matches, then the
\* loop over the ones before it.
StructLoop(content, matches) ==
    IF matches = <<>> THEN [content |-> content, error |-> "none"]
    ELSE LET match == matches[Len(matches)]
             before == SubSeq(matches, 1, Len(matches) - 1)
         IN  IF is_preceded_by_comment(content, match.start)
             THEN StructLoop(content, before)
             ELSE StructLoop(
                    Insert(content, match.start,
                           generate_struct_comment(match.struct_name)),
                    before)

add_doxygen_to_structs(content) ==
    StructLoop(content, struct_matches(content))

(***************************************************************************)
(* The inputs.                                                             *)
(***************************************************************************)
SUPPORTED_EXTENSIONS == {".cpp", ".hpp", ".h", ".c"}

\* The files os.walk finds under the root directory.
FileNames == {"a.c", "b.hpp", "notes.txt"}

\* The text a source file is made of: declarations of each category, lines
\* that match two patterns or none, comments of each form, a blank line.
Fragments ==
    {"int x;\n", "\n", "// doc\n", "/* doc */\n", "/* doc\n*/\n",
     "int f(int a, int* b) {\n", "void g( )\n", "struct P p;\n",
     "class K {\n", "int arr[10];\n"}

RECURSIVE Buffers(_)
\* The texts made of at most n fragments.
Buffers(n) ==
    IF n = 0 THEN {""}
    ELSE Buffers(n - 1) \cup {b \o f : b \in Buffers(n - 1), f \in Fragments}

\* The text the classifier is given is made of these pieces.
Pieces == {"const", "*", "&", "[", "]", "1", " ", "\n", "x"}

RECURSIVE Texts(_)
\* The texts made of at most n pieces.
Texts(n) ==
    IF n = 0 THEN {""}
    ELSE Texts(n - 1) \cup {t \o q : t \in Texts(n - 1), q \in Pieces}

(***************************************************************************)
(* The state.                                                              *)
(***************************************************************************)
VARIABLES
    fs,          \* the directory: file name -> text of the file
    pending,     \* process_directory: the files the walk has not reached
    pc,          \* where the script is
    file_path,   \* add_doxygen_to_file: its argument ("" outside of it)
    content,     \* add_doxygen_to_file: its local variable
    error,       \* the exception that ended the run ("none" if none did)
    run,         \* the number of the script's run over the directory
    declaration, \* detect_variable_type: its argument
    var_type     \* detect_variable_type: its result ("unset" before the call)

vars == <<fs, pending, pc, file_path, content, error, run, declaration, var_type>>

Init ==
    /\ fs \in {[f \in FileNames |->
                  IF f = "a.c" THEN b ELSE IF f = "b.hpp" THEN "int y;\n" ELSE "int z;\n"]
               : b \in Buffers(MaxFragments)}
    /\ pending = FileNames
    /\ pc = "walk"
    /\ file_path = ""
    /\ content = ""
    /\ error = "none"
    /\ run = 1
    /\ declaration = ""
    /\ var_type = "unset"

\* file.endswith(SUPPORTED_EXTENSIONS)
Supported(file) == \E ext \in SUPPORTED_EXTENSIONS : EndsWith(file, ext)

(***************************************************************************)
(* process_directory                                                       *)
(***************************************************************************)
\* The loop reaches a file that does not end with a supported extension.
\* os.walk lists the files in the order the directory gives them, which is
\* any order.
SkipFile ==
    /\ pc = "walk"
    /\ \E file \in pending :
         /\ ~Supported(file)
         /\ pending' = pending \ {file}
    /\ UNCHANGED <<fs, pc, file_path, content, error, run, declaration, var_type>>

\* The loop reaches a source file and calls add_doxygen_to_file.
StartFile ==
    /\ pc = "walk"
    /\ \E file \in pending :
         /\ Supported(file)
         /\ pending' = pending \ {file}
         /\ file_path' = file
    /\ pc' = "read"
    /\ UNCHANGED <<fs, content, error, run, declaration, var_type>>

\* The walk is over.
Finish ==
    /\ pc = "walk"
    /\ pending = {}
    /\ pc' = "done"
    /\ UNCHANGED <<fs, pending, file_path, content, error, run, declaration, var_type>>

(***************************************************************************)
(* add_doxygen_to_file                                                     *)
(***************************************************************************)
\* An exception leaves add_doxygen_to_file and process_directory, which
\* catch nothing: the run ends.
Raise(exception) ==
    /\ pc' = "aborted"
    /\ error' = exception
    /\ UNCHANGED <<fs, pending, file_path, content, run, declaration, var_type>>

Read ==
    /\ pc = "read"
    /\ content' = fs[file_path]
    /\ pc' = "functions"
    /\ UNCHANGED <<fs, pending, file_path, error, run, declaration, var_type>>

\* open(file_path, 'r') or file.read() fails.
ReadFails ==
    /\ pc = "read"
    /\ Raise("OSError")

\* content = add_doxygen_to_functions(content)
Functions ==
    /\ pc = "functions"
    /\ LET r == add_doxygen_to_functions(content)
       IN  IF r.error = "none"
           THEN /\ content' = r.content
                /\ pc' = "variables"
                /\ UNCHANGED <<fs, pending, file_path, error, run,
                               declaration, var_type>>
           ELSE Raise(r.error)

\* Variables run on the text of the file instead of the output of the
\* function pass.
VariablesOnFile ==
    /\ pc = "variables"
    /\ content' = add_doxygen_to_variables(fs[file_path]).content
    /\ pc' = "structs"
    /\ UNCHANGED <<fs, pending, file_path, error, run, declaration, var_type>>

\* content = add_doxygen_to_variables(content)
Variables ==
    /\ pc = "variables"
    /\ content' = add_doxygen_to_variables(content).content
    /\ pc' = "structs"
    /\ UNCHANGED <<fs, pending, file_path, error, run, declaration, var_type>>

\* content = add_doxygen_to_structs(content)
Structs ==
    /\ pc = "structs"
    /\ content' = add_doxygen_to_structs(content).content
    /\ pc' = "write"
    /\ UNCHANGED <<fs, pending, file_path, error, run, declaration, var_type>>

\* The file is written and add_doxygen_to_file returns to the loop.
Write ==
    /\ pc = "write"
    /\ fs' = [fs EXCEPT ![file_path] = content]
    /\ pc' = "walk"
    /\ file_path' = ""
    /\ content' = ""
    /\ UNCHANGED <<pending, error, run, declaration, var_type>>

\* open(file_path, 'w') fails: the file is left as it was.
WriteFails ==
    /\ pc = "write"
    /\ Raise("OSError")

Next ==
    \/ SkipFile
    \/ StartFile
    \/ Finish
    \/ Read
    \/ ReadFails
    \/ Functions
    \/ Variables
    \/ Structs
    \/ Write
    \/ WriteFails

Spec == Init /\ [][Next]_vars

(***************************************************************************)
(* The script is run again over the directory it has rewritten.            *)
(***************************************************************************)
Rerun ==
    /\ pc = "done"
    /\ run < MaxRuns
    /\ run' = run + 1
    /\ pending' = FileNames
    /\ pc' = "walk"
    /\ UNCHANGED <<fs, file_path, content, error, declaration, var_type>>

NextRerun == Next \/ Rerun

SpecRerun == Init /\ [][NextRerun]_vars

(***************************************************************************)
(* detect_variable_type on its own, over the texts made of Pieces.         *)
(***************************************************************************)
InitClassify ==
    /\ declaration \in Texts(MaxPieces)
    /\ var_type = "unset"
    /\ fs = [f \in FileNames |-> ""]
    /\ pending = {}
    /\ pc = "classify"
    /\ file_path = ""
    /\ content = ""
    /\ error = "none"
    /\ run = 1

Classify ==
    /\ pc = "classify"
    /\ var_type = "unset"
    /\ var_type' = detect_variable_type(declaration)
    /\ UNCHANGED <<fs, pending, pc, file_path, content, error, run, declaration>>

SpecClassify == InitClassify /\ [][Classify]_vars

(***************************************************************************)
(* Notions the properties are stated with.                                 *)
(***************************************************************************)
LineStarts(c) == {i \in 1..Len(c) : IsLineStart(c, i)}

Occurrences(s, sub) ==
    Cardinality({i \in 1..(Len(s) - Len(sub) + 1) : SubSeq(s, i, i + Len(sub) - 1) = sub})

InPass == pc \in {"functions", "variables", "structs"}

\* Every block the script inserts starts with this line ...
GeneratedOpening == "\n// StateDiagram"
\* ... and ends with this one; the comments of the input files (Fragments)
\* close with */ at the start of a line.
GeneratedClosing == "\n */\n"

(***************************************************************************)
(* C4.  is_preceded_by_comment(content, start) is true exactly when the    *)
(* last non-empty line before start, trimmed, starts with //, or contains  *)
(* the closer of a block comment and the scan backward from that line      *)
(* finds a line with the opener before another line with a closer; so a    *)
(* declaration below a block comment of several lines is suppressed.       *)
(***************************************************************************)
\* The first and last position of the line that holds position k.
LineFirst(c, k) == BackTo(c, k, "\n") + 1
LineLast(c, k) == Find(c, k, "\n") - 1

RECURSIVE OpenerAbove(_, _)
\* Above the line that starts at b, going up: a line with the opener is met
\* before a line with a closer.
OpenerAbove(c, b) ==
    IF b <= 1 THEN FALSE
    ELSE LET above == SubSeq(c, LineFirst(c, b - 2), b - 2)
         IN  IF Contains(above, "/*") THEN TRUE
             ELSE IF Contains(above, "*/") THEN FALSE
             ELSE OpenerAbove(c, LineFirst(c, b - 2))

Documented(c, start) ==
    LET hi == BackWs(c, start - 1)
        b == LineFirst(c, hi)
        line == Strip(SubSeq(c, b, hi))
    IN  /\ hi >= 1
        /\ \/ StartsWith(line, "//")
           \/ /\ Contains(line, "*/")
              /\ Contains(line, "/*") \/ OpenerAbove(c, b)

\* The positions of content where a match of one of the patterns starts.
MatchStarts(c) ==
    {i \in LineStarts(c) : \/ FunctionMatchAt(c, i) # NoMatch
                           \/ VariableMatchAt(c, i) # NoMatch
                           \/ StructMatchAt(c, i) # NoMatch}

SuppressorDecision ==
    InPass =>
        \A i \in MatchStarts(content) :
            is_preceded_by_comment(content, i) = Documented(content, i)

(***************************************************************************)
(* C1.  Run again on the text it has produced, the script inserts nothing: *)
(* what a second run is about to write is what it has read.                *)
(***************************************************************************)
RerunInsertsNothing ==
    (run > 1 /\ pc = "write") => content = fs[file_path]

(***************************************************************************)
(* C3.  After the three passes no declaration has two generated blocks     *)
(* above it: no generated block is followed at once by another one.        *)
(***************************************************************************)
StackedBlocks(c) == Contains(c, GeneratedClosing \o GeneratedOpening)

NoRedundantAnnotation ==
    (run = 1 /\ pc = "write") => ~StackedBlocks(content)

(***************************************************************************)
(* C5.  A read or write failure is the only exception that ends a run.     *)
(***************************************************************************)
OnlyIOFailuresSurface ==
    pc = "aborted" => error = "OSError"

(***************************************************************************)
(* C6.  In the struct/class pass every line that begins with the keyword   *)
(* struct or class followed by an identifier is a match.                   *)
(***************************************************************************)
\* The line that starts at i holds, after its indentation, the keyword,
\* whitespace and an identifier.
KeywordLine(c, i, keyword) ==
    LET p == SkipWs(c, i)
        n == SkipWs(c, p + Len(keyword))
    IN  /\ LineLast(c, i) >= p
        /\ At(c, p, keyword)
        /\ n > p + Len(keyword)
        /\ IsWord(c, n)

StructAndClassRecognised ==
    pc = "structs" =>
        \A i \in LineStarts(content) :
            (KeywordLine(content, i, "struct") \/ KeywordLine(content, i, "class"))
            => \E k \in 1..Len(struct_matches(content)) :
                   SkipWs(content, struct_matches(content)[k].start) = SkipWs(content, i)

(***************************************************************************)
(* C7.  A generated block is directly followed by the line that holds the  *)
(* declaration: no blank line comes between the block and the declaration. *)
(***************************************************************************)
\* A generated block ends at i, a blank line follows it, and what comes
\* after the blank lines is not another generated block.
BlankLineAfterBlock(c, i) ==
    /\ At(c, i, GeneratedClosing \o "\n")
    /\ ~At(c, SkipWs(c, i + Len(GeneratedClosing)), "// StateDiagram")

PlacedImmediatelyAbove ==
    pc \in {"variables", "structs", "write"} =>
        \A i \in 1..Len(content) : ~BlankLineAfterBlock(content, i)

(***************************************************************************)
(* C9.  detect_variable_type returns CONSTANT if the text contains const,  *)
(* otherwise POINTER_OR_REFERENCE if it contains * or &, otherwise ARRAY   *)
(* if it has an array-bracket shape, otherwise VARIABLE.                   *)
(***************************************************************************)
\* Somewhere in the text: [ then whitespace, digits, whitespace, then ].
HasBracketShape(t) ==
    \E i \in 1..Len(t) : \E j \in (i + 1)..Len(t) :
        /\ Char(t, i) = "[" /\ Char(t, j) = "]"
        /\ \E a \in (i + 1)..j : \E b \in a..j :
             /\ \A k \in (i + 1)..(a - 1) : Char(t, k) \in Whitespace
             /\ \A k \in a..(b - 1) : Char(t, k) \in Digit
             /\ \A k \in b..(j - 1) : Char(t, k) \in Whitespace

FunctionInsertions(c) ==
    LET ms == function_matches(c)
    IN  [k \in 1..Len(ms) |->
            [start |-> ms[k].start,
             text |-> IF is_preceded_by_comment(c, ms[k].start) THEN ""
                      ELSE generate_function_comment(ms[k].return_type,
                                                     ms[k].function_name,
                                                     ms[k].params)]]

VariableInsertions(c) ==
    LET ms == variable_matches(c)
    IN  [k \in 1..Len(ms) |->
            [start |-> ms[k].start,
             text |-> IF is_preceded_by_comment(c, ms[k].start) THEN ""
                      ELSE generate_variable_comment(
                              detect_variable_type(ms[k].declaration_type),
                              ms[k].variable_name)]]

StructInsertions(c) ==
    LET ms == struct_matches(c)
    IN  [k \in 1..Len(ms) |->
            [start |-> ms[k].start,
             text |-> IF is_preceded_by_comment(c, ms[k].start) THEN ""
                      ELSE generate_struct_comment(ms[k].struct_name)]]

RECURSIVE Woven(_, _, _)
\* From the k-th insertion on: its text, then the input from its offset up
\* to the next insertion's offset (to the end of the input after the last).
Woven(c, ins, k) ==
    IF k > Len(ins) THEN ""
    ELSE ins[k].text
         \o SubSeq(c, ins[k].start,
                   IF k = Len(ins) THEN Len(c) ELSE ins[k + 1].start - 1)
         \o Woven(c, ins, k + 1)

Expected(c, ins) ==
    IF Len(ins) = 0 THEN c
    ELSE SubSeq(c, 1, ins[1].start - 1) \o Woven(c, ins, 1)

\* The start offsets of a pass differ and ascend.
Ascending(ins) == \A k \in 1..(Len(ins) - 1) : ins[k].start < ins[k + 1].start

PassStep ==
    /\ (pc = "functions" /\ pc' = "variables") =>
          /\ Ascending(FunctionInsertions(content))
          /\ content' = Expected(content, FunctionInsertions(content))
    /\ (pc = "variables" /\ pc' = "structs") =>
          /\ Ascending(VariableInsertions(content))
          /\ content' = Expected(content, VariableInsertions(content))
    /\ (pc = "structs" /\ pc' = "write") =>
          /\ Ascending(StructInsertions(content))
          /\ content' = Expected(content, StructInsertions(content))

MutationContract == [][PassStep]_vars

\* The variable pass has inserted two blocks into one buffer.
MutationContractWitness ==
    /\ pc = "structs"
    /\ Occurrences(content, "// StateDiagramNaming: Variable Definition TODO") >= 2

(***************************************************************************)
(* C8.  Each source file is read whole, taken through the function pass,   *)
(* the variable pass on the function pass's output and the struct pass on  *)
(* the variable pass's output, and written back, before the next file is   *)
(* started; a file is written only when its three passes are over, and     *)
(* only source files are processed.                                        *)
(***************************************************************************)
FunctionsOf(c) == add_doxygen_to_functions(c).content
VariablesOf(c) == add_doxygen_to_variables(FunctionsOf(c)).content
StructsOf(c) == add_doxygen_to_structs(VariablesOf(c)).content

\* What add_doxygen_to_file holds at each of its steps, in terms of the file.
BufferIsPipelineOf ==
    /\ pc \in {"read", "functions", "variables", "structs", "write"} =>
          Supported(file_path) /\ file_path \notin pending
    /\ pc = "functions" => content = fs[file_path]
    /\ pc = "variables" => content = FunctionsOf(fs[file_path])
    /\ pc = "structs" => content = VariablesOf(fs[file_path])
    /\ pc = "write" => content = StructsOf(fs[file_path])

StepOrder ==
    {<<"walk", "read">>, <<"read", "functions">>, <<"functions", "variables">>,
     <<"variables", "structs">>, <<"structs", "write">>, <<"write", "walk">>,
     <<"walk", "done">>, <<"read", "aborted">>, <<"functions", "aborted">>,
     <<"write", "aborted">>}

OrderedStep ==
    /\ pc' # pc => <<pc, pc'>> \in StepOrder
    /\ fs' # fs =>
          /\ pc = "write" /\ pc' = "walk"
          /\ fs' = [fs EXCEPT ![file_path] = content]
    /\ file_path' # file_path =>
          \/ pc = "walk" /\ pc' = "read" /\ file_path' \in pending
          \/ pc = "write" /\ pc' = "walk"
    /\ pending' # pending => pc = "walk"

PassAndFileOrder == [](BufferIsPipelineOf) /\ [][OrderedStep]_vars

\* A file is at its variable pass with the function pass's insertion in the
\* buffer, after another file was rewritten.
PassAndFileOrderWitness ==
    /\ pc = "variables"
    /\ file_path = "a.c"
    /\ content # fs["a.c"]
    /\ Contains(fs["b.hpp"], GeneratedOpening)

(***************************************************************************)
(* C10.  The classifier is given group 1 of the variable pattern only,     *)
(* which holds no bracket: no match is classified ARRAY, no inserted       *)
(* comment names the subtype array, and a line int arr[10]; is no match of *)
(* the variable pattern and gets no block.                                 *)
(***************************************************************************)
\* The last non-blank line before position i closes a generated block.
BlockAbove(c, i) == EndsWith(SubSeq(c, 1, BackWs(c, i - 1)), "\n */")

NeverArray ==
    /\ \A k \in 1..Len(variable_matches(content)) :
          LET m == variable_matches(content)[k]
          IN  /\ ~Contains(m.declaration_type, "[")
              /\ ~Contains(m.declaration_type, "]")
              /\ detect_variable_type(m.declaration_type) # "array"
              /\ \A i \in LineStarts(content) :
                    At(content, i, "int arr[10];") => ~(m.start <= i /\ i < m.end)
    /\ \A i \in LineStarts(content) :
          At(content, i, "int arr[10];") =>
              /\ VariableMatchAt(content, i) = NoMatch
              /\ ~BlockAbove(content, i)
    /\ ~Contains(content, " the array ")
    /\ \A f \in FileNames : ~Contains(fs[f], " the array ")

\* The variable pass has annotated a declaration of a file that also holds
\* the array declaration.
NeverArrayWitness ==
    /\ pc = "structs"
    /\ Contains(content, "int arr[10];")
    /\ Contains(content, "// StateDiagramNaming: Variable Definition TODO")

====
